---------------------------- MODULE Spec2Model ----------------------------
(***************************************************************************)
(* NeonDaniel/skill-news: the News skill of src/__init__.py.               *)
(*                                                                         *)
(* State: the class-level catalog NewsSkill.lang2news (shared by every     *)
(* request), the host settings and language, and the list returned by the  *)
(* last search_news call.  The handler search_news is one atomic action:   *)
(* the skill is single threaded and the host blocks until it returns.      *)
(*                                                                         *)
(* A phrase is the set of its words.  voc_match, remove_voc and the        *)
(* token-sort fuzzy match are all insensitive to word order and            *)
(* repetition, and "not phrase" after strip() is emptiness of that set.    *)
(* Confidences are kept as integers: the fuzzy score is a multiple of      *)
(* 1/Grain and 60 is divisible by Grain.                                   *)
(***************************************************************************)
EXTENDS Integers, Sequences, FiniteSets, TLC

(* ------------------------------ bounds -------------------------------- *)
\* words in an utterance drawn for the single-utterance specification
MaxWords == 2
\* requests served in a behaviour of the multi-request specification
MaxRequests == 2
\* distinct URIs a resolver can find on the network over time
MaxVersion == 2
\* the fuzzy score is one of 0/Grain .. Grain/Grain
Grain == 4

(* ------------------------- option and URI values ---------------------- *)
\* a dict key that may be absent: <<>> is absent, <<x>> is present
Absent == << >>
Some(x) == << x >>
Get(o, default) == IF o = Absent THEN default ELSE o[1]

\* the value of v["uri"]: a str, a function object, or None; what a
\* resolver call produces is one of the first and last, or an exception
Str(s) == [kind |-> "str", val |-> s]
Fn(f) == [kind |-> "callable", val |-> f]
None == [kind |-> "None", val |-> ""]
Raise == [kind |-> "raise", val |-> ""]
callable(u) == u.kind = "callable"
\* Python truthiness of a uri value (line 700)
Truthy(u) == u.kind = "callable" \/ (u.kind = "str" /\ u.val # "")

(* ----------------------------- host constants -------------------------- *)
\* MatchConfidence.AVERAGE of ovos_workshop.frameworks.playback
AVERAGE == 50
\* self.supported_media
MediaTypes == {"GENERIC", "VIDEO", "TV", "NEWS"}
\* self.default_bg, self.skill_icon
default_bg == "ui/bg.jpg"
skill_icon == "ui/news.png"

\* default feeds per language
LangDefaultTags == {"pt-pt", "ca", "es", "en-gb", "en-us", "en-au", "fr", "de"}
langdefaults ==
  [t \in LangDefaultTags |->
     CASE t = "pt-pt" -> "TSF"
       [] t = "ca" -> "CCMA"
       [] t = "es" -> "RNE"
       [] t = "en-gb" -> "BBC"
       [] t = "en-us" -> "NPR"
       [] t = "en-au" -> "ABC"
       [] t = "fr" -> "France24"
       [] t = "de" -> "Deutsche Welle"]

(* ------------------------------ the catalog ---------------------------- *)
\* lang2news as constructed at class definition, in dict iteration order.
\* Source names are unique over all language buckets, so an entry is keyed
\* by its name k and carries its bucket l in the field lang.  Non-ASCII
\* letters of aliases are folded to ASCII.
Order ==
  << "France24 EN", "Deutsche Welle EN", "Russia Today", "SkyStream",
     "GPB", "AP", "FOX", "NPR",
     "PBS", "Russia Today America", "BBC", "EuroNews",
     "Russia Today UK", "ABC", "CBC", "TSF",
     "RDP-AFRICA", "EuroNews PT", "Deutsche Welle", "OE3",
     "DLF", "WDR", "EuroNews DE", "VRT",
     "Ekot", "RNE", "France24 ES", "EuroNews ES",
     "Deutsche Welle ES", "CCMA", "YLE", "EuroNews RU",
     "EuroNews IT", "France24", "EuroNews FR", "Russia Today France" >>

Load(k) ==
  CASE k = "France24 EN" ->  \* line 101
      [lang |-> "en", aliases |-> <<"france 24">>,
       uri |-> Str("youtube.channel.live//https://www.youtube.com/channel/UCQfwfsi5VrQ8yKZ-UWmAEFg"),
       media_type |-> "NEWS", playback |-> "VIDEO",
       secondary_langs |-> {"fr"}]
    [] k = "Deutsche Welle EN" ->  \* line 112
      [lang |-> "en", aliases |-> <<"DW", "Deutsche Welle">>,
       uri |-> Str("youtube.channel.live//https://www.youtube.com/channel/UCknLrEdhRCp1aegoMqRaCZg"),
       media_type |-> "NEWS", playback |-> "VIDEO",
       secondary_langs |-> {}]
    [] k = "Russia Today" ->  \* line 122
      [lang |-> "en", aliases |-> <<"RT", "Russia Today">>,
       uri |-> Str("youtube.channel.live//https://www.youtube.com/user/RussiaToday"),
       media_type |-> "NEWS", playback |-> "VIDEO",
       secondary_langs |-> {"ru"}]
    [] k = "SkyStream" ->  \* line 135
      [lang |-> "en-us", aliases |-> <<"skyuri", "sky uri", "sky news", "skynews">>,
       uri |-> Str("https://skynews2-plutolive-vo.akamaized.net/cdhlsskynewsamericas/1013/latest.m3u8?serverSideAds=true"),
       media_type |-> "NEWS", playback |-> "VIDEO",
       secondary_langs |-> {"en"}]
    [] k = "GPB" ->  \* line 160
      [lang |-> "en-us", aliases |-> <<"Georgia Public Broadcasting", "GPB", "Georgia Public Radio">>,
       uri |-> Fn("gpb"),
       media_type |-> "NEWS", playback |-> "AUDIO",
       secondary_langs |-> {"en"}]
    [] k = "AP" ->  \* line 171
      [lang |-> "en-us", aliases |-> <<"AP Hourly Radio News", "Associated Press", "Associated Press News", "Associated Press Radio News", "Associated Press Hourly Radio News">>,
       uri |-> Str("rss//https://www.spreaker.com/show/1401466/episodes/feed"),
       media_type |-> "NEWS", playback |-> "AUDIO",
       secondary_langs |-> {"en"}]
    [] k = "FOX" ->  \* line 184
      [lang |-> "en-us", aliases |-> <<"FOX News", "FOX", "Fox News Channel">>,
       uri |-> Str("rss//http://feeds.foxnewsradio.com/FoxNewsRadio"),
       media_type |-> "NEWS", playback |-> "AUDIO",
       secondary_langs |-> {"en"}]
    [] k = "NPR" ->  \* line 194
      [lang |-> "en-us", aliases |-> <<"NPR News", "NPR", "National Public Radio", "National Public Radio News", "NPR News Now">>,
       uri |-> Fn("npr"),
       media_type |-> "NEWS", playback |-> "AUDIO",
       secondary_langs |-> {"en"}]
    [] k = "PBS" ->  \* line 205
      [lang |-> "en-us", aliases |-> <<"PBS News", "PBS", "PBS NewsHour", "PBS News Hour", "National Public Broadcasting Service", "Public Broadcasting Service News">>,
       uri |-> Str("rss//https://www.pbs.org/newshour/feeds/rss/podcasts/show"),
       media_type |-> "NEWS", playback |-> "AUDIO",
       secondary_langs |-> {"en"}]
    [] k = "Russia Today America" ->  \* line 217
      [lang |-> "en-us", aliases |-> <<"RT", "Russia Today", "RT America", "Russia Today America">>,
       uri |-> Str("youtube.channel.live//https://www.youtube.com/channel/UCczrL-2b-gYK3l4yDld4XlQ"),
       media_type |-> "NEWS", playback |-> "VIDEO",
       secondary_langs |-> {"en", "ru"}]
    [] k = "BBC" ->  \* line 231
      [lang |-> "en-gb", aliases |-> <<"British Broadcasting Corporation", "BBC", "BBC News">>,
       uri |-> Str("rss//https://podcasts.files.bbci.co.uk/p02nq0gn.rss"),
       media_type |-> "NEWS", playback |-> "AUDIO",
       secondary_langs |-> {"en"}]
    [] k = "EuroNews" ->  \* line 242
      [lang |-> "en-gb", aliases |-> <<"euro", "euronews", "Euro News", "european", "european news">>,
       uri |-> Str("youtube.channel.live//https://www.youtube.com/user/Euronews"),
       media_type |-> "NEWS", playback |-> "VIDEO",
       secondary_langs |-> {"en"}]
    [] k = "Russia Today UK" ->  \* line 255
      [lang |-> "en-gb", aliases |-> <<"RT", "Russia Today", "RT UK", "Russia Today UK">>,
       uri |-> Str("youtube.channel.live//https://www.youtube.com/channel/UC_ab7FFA2ACk2yTHgNan8lQ"),
       media_type |-> "NEWS", playback |-> "VIDEO",
       secondary_langs |-> {"en", "ru"}]
    [] k = "ABC" ->  \* line 268
      [lang |-> "en-au", aliases |-> <<"ABC News Australia", "ABC News", "ABC">>,
       uri |-> Fn("abc"),
       media_type |-> "NEWS", playback |-> "AUDIO",
       secondary_langs |-> {"en"}]
    [] k = "CBC" ->  \* line 280
      [lang |-> "en-ca", aliases |-> <<"Canadian Broadcasting Corporation", "CBC", "CBC News">>,
       uri |-> Str("rss//https://www.cbc.ca/podcasting/includes/hourlynews.xml"),
       media_type |-> "NEWS", playback |-> "AUDIO",
       secondary_langs |-> {"en"}]
    [] k = "TSF" ->  \* line 293
      [lang |-> "pt-pt", aliases |-> <<"TSF", "TSF Radio Noticias", "TSF Noticias">>,
       uri |-> Fn("tsf"),
       media_type |-> "NEWS", playback |-> "AUDIO",
       secondary_langs |-> {"pt"}]
    [] k = "RDP-AFRICA" ->  \* line 303
      [lang |-> "pt-pt", aliases |-> <<"RDP", "RDP Africa", "Noticiarios RDP Africa">>,
       uri |-> Str("http://www.rtp.pt//play/itunes/5442"),
       media_type |-> "NEWS", playback |-> "AUDIO",
       secondary_langs |-> {"pt"}]
    [] k = "EuroNews PT" ->  \* line 314
      [lang |-> "pt-pt", aliases |-> <<"euro", "euronews", "Euro News", "european", "european news">>,
       uri |-> Str("youtube.channel.live//https://www.youtube.com/user/euronewspt"),
       media_type |-> "NEWS", playback |-> "VIDEO",
       secondary_langs |-> {"pt"}]
    [] k = "Deutsche Welle" ->  \* line 329
      [lang |-> "de", aliases |-> <<"DW", "Deutsche Welle">>,
       uri |-> Str("youtube.channel.live//https://www.youtube.com/c/dwdeutsch"),
       media_type |-> "NEWS", playback |-> "VIDEO",
       secondary_langs |-> {}]
    [] k = "OE3" ->  \* line 339
      [lang |-> "de", aliases |-> <<"OE3", "O3 Nachrichten">>,
       uri |-> Str("https://oe3meta.orf.at/oe3mdata/StaticAudio/Nachrichten.mp3"),
       media_type |-> "NEWS", playback |-> "AUDIO",
       secondary_langs |-> {}]
    [] k = "DLF" ->  \* line 348
      [lang |-> "de", aliases |-> <<"DLF", "deutschlandfunk">>,
       uri |-> Str("rss//https://www.deutschlandfunk.de/podcast-nachrichten.1257.de.podcast.xml"),
       media_type |-> "NEWS", playback |-> "AUDIO",
       secondary_langs |-> {}]
    [] k = "WDR" ->  \* line 357
      [lang |-> "de", aliases |-> <<"WDR">>,
       uri |-> Str("https://www1.wdr.de/mediathek/audio/wdr-aktuell-news/wdr-aktuell-152.podcast"),
       media_type |-> "NEWS", playback |-> "AUDIO",
       secondary_langs |-> {}]
    [] k = "EuroNews DE" ->  \* line 366
      [lang |-> "de", aliases |-> <<"euro", "euronews", "Euro News", "european", "european news">>,
       uri |-> Str("youtube.channel.live//https://www.youtube.com/user/euronewsde"),
       media_type |-> "NEWS", playback |-> "VIDEO",
       secondary_langs |-> {}]
    [] k = "VRT" ->  \* line 380
      [lang |-> "nl", aliases |-> <<"VRT Nieuws", "VRT">>,
       uri |-> Str("https://progressive-audio.lwc.vrtcdn.be/content/fixed/11_11niws-snip_hi.mp3"),
       media_type |-> "NEWS", playback |-> "AUDIO",
       secondary_langs |-> {}]
    [] k = "Ekot" ->  \* line 391
      [lang |-> "sv", aliases |-> <<"Ekot">>,
       uri |-> Str("rss//https://api.sr.se/api/rss/pod/3795"),
       media_type |-> "NEWS", playback |-> "AUDIO",
       secondary_langs |-> {}]
    [] k = "RNE" ->  \* line 402
      [lang |-> "es", aliases |-> <<"RNE", "National Spanish Radio", "Radio Nacional de Espana">>,
       uri |-> Str("rss//http://api.rtve.es/api/programas/36019/audios.rs"),
       media_type |-> "NEWS", playback |-> "AUDIO",
       secondary_langs |-> {}]
    [] k = "France24 ES" ->  \* line 412
      [lang |-> "es", aliases |-> <<"france 24">>,
       uri |-> Str("youtube.channel.live//https://www.youtube.com/channel/UCUdOoVWuWmgo1wByzcsyKDQ"),
       media_type |-> "NEWS", playback |-> "VIDEO",
       secondary_langs |-> {"fr"}]
    [] k = "EuroNews ES" ->  \* line 423
      [lang |-> "es", aliases |-> <<"euro", "euronews", "Euro News", "european", "european news">>,
       uri |-> Str("youtube.channel.live//https://www.youtube.com/user/euronewses"),
       media_type |-> "NEWS", playback |-> "VIDEO",
       secondary_langs |-> {}]
    [] k = "Deutsche Welle ES" ->  \* line 435
      [lang |-> "es", aliases |-> <<"DW", "Deutsche Welle">>,
       uri |-> Str("youtube.channel.live//https://www.youtube.com/channel/UCT4Jg8h03dD0iN3Pb5L0PMA"),
       media_type |-> "NEWS", playback |-> "VIDEO",
       secondary_langs |-> {}]
    [] k = "CCMA" ->  \* line 447
      [lang |-> "ca", aliases |-> <<"CCMA", "Catalunya Informacio">>,
       uri |-> Str("https://de1.api.radio-browser.info/pls/url/69bc7084-523c-11ea-be63-52543be04c81"),
       media_type |-> "NEWS", playback |-> "AUDIO",
       secondary_langs |-> {"es"}]
    [] k = "YLE" ->  \* line 459
      [lang |-> "fi", aliases |-> <<"YLE", "YLE News Radio">>,
       uri |-> Str("rss//https://feeds.yle.fi/areena/v1/series/1-1440981.rss"),
       media_type |-> "NEWS", playback |-> "AUDIO",
       secondary_langs |-> {}]
    [] k = "EuroNews RU" ->  \* line 470
      [lang |-> "ru", aliases |-> <<"euro", "euronews", "Euro News", "european", "european news">>,
       uri |-> Str("youtube.channel.live//https://www.youtube.com/user/euronewsru"),
       media_type |-> "NEWS", playback |-> "VIDEO",
       secondary_langs |-> {}]
    [] k = "EuroNews IT" ->  \* line 484
      [lang |-> "it", aliases |-> <<"euro", "euronews", "Euro News", "european", "european news">>,
       uri |-> Str("youtube.channel.live//https://www.youtube.com/user/euronewsit"),
       media_type |-> "NEWS", playback |-> "VIDEO",
       secondary_langs |-> {}]
    [] k = "France24" ->  \* line 498
      [lang |-> "fr", aliases |-> <<"france 24">>,
       uri |-> Str("youtube.channel.live//https://www.youtube.com/channel/UCCCPCZNChQdGa9EkATeye4g"),
       media_type |-> "NEWS", playback |-> "VIDEO",
       secondary_langs |-> {}]
    [] k = "EuroNews FR" ->  \* line 508
      [lang |-> "fr", aliases |-> <<"euro", "euronews", "Euro News", "european", "european news">>,
       uri |-> Str("youtube.channel.live//https://www.youtube.com/user/euronewsfr"),
       media_type |-> "NEWS", playback |-> "VIDEO",
       secondary_langs |-> {}]
    [] k = "Russia Today France" ->  \* line 520
      [lang |-> "fr", aliases |-> <<"RT", "Russia Today">>,
       uri |-> Str("youtube.channel.live//https://www.youtube.com/channel/UCqEVwTnDzlzKOGYNFemqnYA"),
       media_type |-> "NEWS", playback |-> "VIDEO",
       secondary_langs |-> {"ru"}]

Names == { Order[i] : i \in 1..Len(Order) }

\* the catalog at skill load: no entry has a match_confidence, title,
\* bg_image or skill_logo key yet
Catalog ==
  [k \in Names |->
     [lang |-> Load(k).lang, aliases |-> Load(k).aliases, uri |-> Load(k).uri,
      media_type |-> Load(k).media_type, playback |-> Load(k).playback,
      secondary_langs |-> Load(k).secondary_langs,
      match_confidence |-> Absent, title |-> Absent, bg_image |-> Absent,
      skill_logo |-> Absent]]

\* the sources whose uri is a function at load, and those functions
ResolverNames == { k \in Names : callable(Load(k).uri) }
Resolvers == { Load(k).uri.val : k \in ResolverNames }

(* ------------------------ the resolvers' outcomes ---------------------- *)
\* the n-th URI a resolver can find on the network
Found(f, n) == Str(f \o "#" \o ToString(n))
Versions == 1..MaxVersion
\* tsf: the URI of a probe answered 200, None after 6 failed probes, or an
\* exception of requests.get
tsf == {Raise, None} \cup { Found("tsf", n) : n \in Versions }
\* gpb: the first mp3 link, None when the page has none, or an exception
gpb == {Raise, None} \cup { Found("gpb", n) : n \in Versions }
\* abc: the download link; any missing element raises, there is no None path
abc == {Raise} \cup { Found("abc", n) : n \in Versions }
\* npr: the stream without its query, None (falls off the end) when the
\* feed has no stream, or an exception
npr == {Raise, None} \cup { Found("npr", n) : n \in Versions }
Outcomes(f) ==
  CASE f = "tsf" -> tsf
    [] f = "gpb" -> gpb
    [] f = "abc" -> abc
    [] f = "npr" -> npr
\* a state of the network: what a call of each resolver produces
Webs == { w \in [Resolvers -> UNION { Outcomes(f) : f \in Resolvers }] :
            \A f \in Resolvers : w[f] \in Outcomes(f) }

(* ------------------------------ vocabulary ----------------------------- *)
\* the .voc files of the skill: the vocabularies each word triggers.  The
\* channel names "france 24" and "russia today" contain a word of the fr
\* and ru vocabularies ("these channels include language .voc in their
\* names"), "fr24" and "rt" do not; "the" triggers nothing.  The vocabulary
\* ids are news, fr24, rt and the language tags.
Words == {"news", "portuguese", "australian", "american", "british",
          "canadian", "english", "spanish", "catalan", "german", "dutch",
          "finnish", "swedish", "italian", "french", "russian",
          "france 24", "fr24", "russia today", "rt", "the"}
Triggers ==
  [w \in Words |->
     CASE w = "news" -> {"news"}
       [] w = "portuguese" -> {"pt-pt"}
       [] w = "australian" -> {"en-au"}
       [] w = "american" -> {"en-us"}
       [] w = "british" -> {"en-gb"}
       [] w = "canadian" -> {"en-ca"}
       [] w = "english" -> {"en"}
       [] w = "spanish" -> {"es"}
       [] w = "catalan" -> {"ca"}
       [] w = "german" -> {"de"}
       [] w = "dutch" -> {"nl"}
       [] w = "finnish" -> {"fi"}
       [] w = "swedish" -> {"sv"}
       [] w = "italian" -> {"it"}
       [] w = "french" -> {"fr"}
       [] w = "russian" -> {"ru"}
       [] w = "france 24" -> {"fr24", "fr"}
       [] w = "fr24" -> {"fr24"}
       [] w = "russia today" -> {"rt", "ru"}
       [] w = "rt" -> {"rt"}
       [] OTHER -> {}]

\* MycroftSkill.voc_match: some trigger of the vocabulary is in the phrase
voc_match(phrase, voc) == \E w \in phrase : voc \in Triggers[w]
\* MycroftSkill.remove_voc: the phrase without the triggers of the vocabulary
remove_voc(phrase, voc) == { w \in phrase : voc \notin Triggers[w] }

\* l.split("-")[0]
Base(l) ==
  CASE l = "pt-pt" -> "pt"
    [] l \in {"en-au", "en-us", "en-gb", "en-ca"} -> "en"
    [] OTHER -> l

InSeq(x, s) == \E i \in 1..Len(s) : s[i] = x

(* ------------------------------ clean_phrase --------------------------- *)
\* the vocabularies stripped by lines 555-567, in that order
Stripped == <<"pt-pt", "en-au", "en-us", "en-ca", "en-gb", "es", "it", "fi",
              "de", "sv", "nl", "en", "ca">>

RECURSIVE RemoveAll(_, _)
RemoveAll(phrase, vocs) ==
  IF vocs = << >> THEN phrase
  ELSE RemoveAll(remove_voc(phrase, Head(vocs)), Tail(vocs))

clean_phrase(phrase) ==
  LET p == remove_voc(phrase, "news")
  IN  IF ~voc_match(p, "fr24") /\ ~voc_match(p, "rt")
      THEN RemoveAll(p, Stripped)
      ELSE p

(* ------------------------------- match_lang ---------------------------- *)
\* the vocabularies tested by lines 573-598, in that order
Tested == <<"pt-pt", "en-au", "en-us", "en-gb", "en-ca", "en", "es", "ca",
            "de", "nl", "fi", "sv", "it">>

\* ChannelGuard without the test of the channel name
ChannelGuardAny(phrase, tag, channel) ==
  IF voc_match(phrase, tag) THEN << tag >> ELSE << >>

\* lines 603-608: fr and ru are honoured unless the channel name matches
ChannelGuard(phrase, tag, channel) ==
  IF voc_match(phrase, tag) /\ ~voc_match(phrase, channel)
  THEN << tag >> ELSE << >>

\* line 610: langs += [l.split("-")[0] for l in langs]
WithBases(langs) == langs \o [i \in 1..Len(langs) |-> Base(langs[i])]

match_lang(phrase) ==
  LET plain == SelectSeq(Tested, LAMBDA t : voc_match(phrase, t))
  IN  WithBases(plain \o ChannelGuard(phrase, "fr", "fr24")
                      \o ChannelGuard(phrase, "ru", "rt"))

(* ------------------------------- search_news --------------------------- *)
\* lines 636-642
base_score(media_type) == IF media_type = "NEWS" THEN 50 ELSE 0 - 20

\* lines 651-656: the default feed of every requested language
RECURSIVE LangFeeds(_)
LangFeeds(langs) ==
  IF langs = << >> THEN << >>
  ELSE (IF Head(langs) \in DOMAIN langdefaults
        THEN << langdefaults[Head(langs)] >> ELSE << >>)
       \o LangFeeds(Tail(langs))

\* lines 657-662: the user's preference when no language was requested;
\* feed is the default_feed setting, "" when it is not set
UserFeed(langs, feed) ==
  IF langs = << >> /\ feed # "" THEN << feed >> ELSE << >>

\* default_feeds without the test "if not phrase"
default_feeds_any(phrase, langs, feed) ==
  LangFeeds(langs) \o UserFeed(langs, feed)

\* lines 647-662; phrase is the cleaned phrase
default_feeds(phrase, langs, feed) ==
  IF phrase = {} THEN LangFeeds(langs) \o UserFeed(langs, feed) ELSE << >>

\* line 665
effective_langs(langs, lang) ==
  IF langs # << >> THEN langs ELSE << lang, Base(lang) >>

\* ovos_utils.parse.match_one with TOKEN_SORT_RATIO: the best ratio over
\* the aliases, in 1/Grain.  The fuzzy match is a capability of the host;
\* ratio says which alias string the phrase resembles and how much.
NoRatio == [target |-> "", level |-> 0]
match_one(phrase, aliases, ratio) ==
  IF InSeq(ratio.target, aliases) THEN ratio.level ELSE 0

\* lang_bonus with the secondary bonus for every other language
lang_bonus_unpenalised(l, v, langs) ==
  IF InSeq(l, langs) THEN 20 ELSE 10

\* lines 675-681
lang_bonus(l, v, langs) ==
  IF InSeq(l, langs) THEN 20
  ELSE IF \E i \in 1..Len(langs) : langs[i] \in v.secondary_langs THEN 10
  ELSE 0 - 20

\* default_bonus given once for every occurrence of k in the list
default_bonus_each(k, feeds) ==
  30 * Cardinality({ i \in 1..Len(feeds) : feeds[i] = k })

\* lines 685-686
default_bonus(k, feeds) == IF InSeq(k, feeds) THEN 30 ELSE 0

\* final_score without the clamp
final_score_unclamped(c) == c

\* line 689
final_score(c) == IF c < 100 THEN c ELSE 100

\* lines 670-689: the confidence written into the entry
confidence(k, v, score, phrase, langs, feeds, ratio) ==
  final_score(score + (match_one(phrase, v.aliases, ratio) * 60) \div Grain
              + lang_bonus(v.lang, v, langs) + default_bonus(k, feeds))

\* candidate without the exemption of NEWS requests
candidate_threshold(c, media_type) == c >= AVERAGE

\* lines 691-693: the inclusion filter
candidate(c, media_type) == c >= AVERAGE \/ media_type = "NEWS"

\* invoked before the inclusion filter
invoked_eager(v, c, media_type) == callable(v.uri)

\* line 694: the resolver is called for a candidate whose uri is callable
invoked(v, c, media_type) == candidate(c, media_type) /\ callable(v.uri)

\* resolved, with the uri set to None when the resolver raises
resolved_none_on_raise(v, c, media_type, web) ==
  IF invoked(v, c, media_type)
  THEN (IF web[v.uri.val] = Raise THEN None ELSE web[v.uri.val])
  ELSE v.uri

\* resolved, clearing the uri of an entry that is not a candidate
resolved_clearing(v, c, media_type, web) ==
  IF invoked(v, c, media_type) /\ web[v.uri.val] # Raise
  THEN web[v.uri.val]
  ELSE IF candidate(c, media_type) THEN v.uri ELSE None

\* lines 694-699: the uri of the entry after the try block
resolved(v, c, media_type, web) ==
  IF invoked(v, c, media_type) /\ web[v.uri.val] # Raise
  THEN web[v.uri.val] ELSE v.uri

\* lines 697-699: except ... continue
skipped(v, c, media_type, web) ==
  invoked(v, c, media_type) /\ web[v.uri.val] = Raise

\* the number of calls of the entry's resolver made by one iteration
invocations(v, c, media_type) == IF invoked(v, c, media_type) THEN 1 ELSE 0

\* returned without the "continue" of the except clause
returned_no_continue(v, c, media_type, web) ==
  /\ candidate(c, media_type)
  /\ Truthy(resolved(v, c, media_type, web))

\* lines 691-704: the entry is appended to results
returned(v, c, media_type, web) ==
  /\ candidate(c, media_type)
  /\ ~skipped(v, c, media_type, web)
  /\ Truthy(resolved(v, c, media_type, web))

\* lines 701-703
annotate(k, v) ==
  [v EXCEPT !.title = Some(Get(v.title, k)),
            !.bg_image = Some(Get(v.bg_image, default_bg)),
            !.skill_logo = Some(skill_icon)]

\* scored, with the requested media type recorded in the entry
scored_requested(k, v, c, media_type, web) ==
  LET w == [v EXCEPT !.match_confidence = Some(c),
                     !.uri = resolved(v, c, media_type, web),
                     !.media_type = media_type]
  IN  IF returned(v, c, media_type, web) THEN annotate(k, w) ELSE w

\* lines 668-704: one iteration of the loop, as the new value of entry v
scored(k, v, c, media_type, web) ==
  LET w == [v EXCEPT !.match_confidence = Some(c),
                     !.uri = resolved(v, c, media_type, web)]
  IN  IF returned(v, c, media_type, web) THEN annotate(k, w) ELSE w

(* -------------------------------- state -------------------------------- *)
VARIABLES
  lang2news,  \* NewsSkill.lang2news, the class-level catalog
  settings,   \* self.settings: default_feed, "" when not set
  lang,       \* self.lang, the system language
  results,    \* the list returned by the last search_news: the names of the
              \* entries, each result being the catalog dict itself (line 704)
  req,        \* the arguments of the last search_news
  ratio,      \* what the fuzzy match answered during the last search_news
  web,        \* what the resolvers found during the last search_news
  local,      \* the locals langs, phrase and default_feeds of that call
  calls,      \* the calls of each source's resolver made by that call
  failed,     \* the sources whose resolver raised in that call
  served,     \* the number of search_news calls served so far
  tsf_pc,     \* where a call of tsf() stands
  tsf_now,    \* now_local(timezone('Portugal')) at the call of tsf()
  tsf_date,   \* the locals date, i, status and uri of tsf()
  tsf_i,
  tsf_status,
  tsf_uri,
  tsf_log,    \* the requests.get calls made by tsf(), in order
  tsf_ret,    \* what tsf() returned
  gpb_pc,     \* where a call of gpb() stands
  gpb_data,   \* the entries of the feed, as feedparser.parse gives them
  gpb_site,   \* the page behind every link
  gpb_next_link,  \* the locals next_link and html of gpb()
  gpb_html,
  gpb_ret     \* what gpb() returned

skillvars == << lang2news, settings, lang, results, req, ratio, web, local,
                calls, failed, served >>
tsfvars == << tsf_pc, tsf_now, tsf_date, tsf_i, tsf_status, tsf_uri, tsf_log,
              tsf_ret >>
gpbvars == << gpb_pc, gpb_data, gpb_site, gpb_next_link, gpb_html, gpb_ret >>
vars == << skillvars, tsfvars, gpbvars >>

NoLocal == [ran |-> FALSE, langs |-> << >>, phrase |-> {},
            default_feeds |-> << >>, effective |-> << >>]

\* search_news(phrase, media_type), with the answers z of the fuzzy match
\* and w of the network.  The locals are bound once, as the code computes
\* them once, and the loop of lines 667-704 gives one record per entry.
search_news(phrase, media_type, z, w) ==
  \E langs \in { match_lang(phrase) }, cleaned \in { clean_phrase(phrase) },
     score \in { base_score(media_type) } :
  \E feeds \in { default_feeds(cleaned, langs, settings.default_feed) },
     eff \in { effective_langs(langs, lang) } :
  \E c \in { [k \in Names |->
                confidence(k, lang2news[k], score, cleaned, eff, feeds, z)] } :
      /\ lang2news' =
           [k \in Names |-> scored(k, lang2news[k], c[k], media_type, w)]
      /\ results' =
           SelectSeq(Order,
                     LAMBDA k : returned(lang2news[k], c[k], media_type, w))
      /\ calls' =
           [k \in Names |-> invocations(lang2news[k], c[k], media_type)]
      /\ failed' = { k \in Names : skipped(lang2news[k], c[k], media_type, w) }
      /\ req' = [phrase |-> phrase, media_type |-> media_type]
      /\ ratio' = z
      /\ web' = w
      /\ local' = [ran |-> TRUE, langs |-> langs, phrase |-> cleaned,
                   default_feeds |-> feeds, effective |-> eff]
      /\ served' = served + 1
      /\ UNCHANGED << settings, lang, tsfvars, gpbvars >>

\* the user changes the default_feed setting of the skill
SetDefaultFeed(feed) ==
  /\ settings.default_feed # feed
  /\ settings' = [settings EXCEPT !.default_feed = feed]
  /\ UNCHANGED << lang2news, lang, results, req, ratio, web, local, calls,
                  failed, served, tsfvars, gpbvars >>

(* ----------------------------- tsf(), 23-39 ---------------------------- *)
\* line 30: the number of probes tsf() makes at most
Attempts == 6
\* the answers of the server that tsf() tells apart
Statuses == {200, 404}

NoDate == [year |-> 0, month |-> 0, day |-> 0, hour |-> 0]
Leap(y) == (y % 4 = 0 /\ y % 100 # 0) \/ y % 400 = 0
DaysIn(y, m) ==
  IF m = 2 THEN (IF Leap(y) THEN 29 ELSE 28)
  ELSE IF m \in {4, 6, 9, 11} THEN 30 ELSE 31

\* PrevHour that stays within the day
PrevHourOfDay(d) == [d EXCEPT !.hour = (d.hour + 23) % 24]

\* line 34: date -= timedelta(hours=1), on the wall clock
PrevHour(d) ==
  IF d.hour > 0 THEN [d EXCEPT !.hour = d.hour - 1]
  ELSE IF d.day > 1 THEN [d EXCEPT !.day = d.day - 1, !.hour = 23]
  ELSE IF d.month > 1
       THEN [d EXCEPT !.month = d.month - 1,
                      !.day = DaysIn(d.year, d.month - 1), !.hour = 23]
  ELSE [year |-> d.year - 1, month |-> 12, day |-> 31, hour |-> 23]

\* {:02d}
Pad2(n) == IF n < 10 THEN "0" \o ToString(n) ELSE ToString(n)

\* lines 24-25 and 31-32: feed.format(hour=..., year=..., month=..., day=...)
Feed(d) ==
  Str("https://www.tsf.pt/stream/audio/" \o ToString(d.year) \o "/"
      \o Pad2(d.month) \o "/noticias/" \o Pad2(d.day) \o "/not"
      \o Pad2(d.hour) \o ".mp3")

tsf_idle ==
  /\ tsf_pc = "idle"
  /\ tsf_now = NoDate
  /\ tsf_date = NoDate
  /\ tsf_i = 0
  /\ tsf_status = 404
  /\ tsf_uri = None
  /\ tsf_log = << >>
  /\ tsf_ret = None

\* lines 26-29
tsf_enter ==
  /\ tsf_pc = "called"
  /\ tsf_uri' = None
  /\ tsf_i' = 0
  /\ tsf_status' = 404
  /\ tsf_date' = tsf_now
  /\ tsf_pc' = "while"
  /\ UNCHANGED << tsf_now, tsf_log, tsf_ret, skillvars, gpbvars >>

\* lines 30-35: one turn of the loop, the server answering with status s
tsf_probe(s) ==
  /\ tsf_pc = "while"
  /\ tsf_status # 200 /\ tsf_i < Attempts
  /\ tsf_uri' = Feed(tsf_date)
  /\ tsf_status' = s
  /\ tsf_log' = Append(tsf_log, [date |-> tsf_date, uri |-> Feed(tsf_date),
                                 status |-> s])
  /\ tsf_date' = PrevHour(tsf_date)
  /\ tsf_i' = tsf_i + 1
  /\ UNCHANGED << tsf_pc, tsf_now, tsf_ret, skillvars, gpbvars >>

\* line 33: requests.get raises, and so does tsf()
tsf_unreachable ==
  /\ tsf_pc = "while"
  /\ tsf_status # 200 /\ tsf_i < Attempts
  /\ tsf_uri' = Feed(tsf_date)
  /\ tsf_log' = Append(tsf_log, [date |-> tsf_date, uri |-> Feed(tsf_date),
                                 status |-> 0])
  /\ tsf_pc' = "raised"
  /\ tsf_ret' = Raise
  /\ UNCHANGED << tsf_now, tsf_date, tsf_i, tsf_status, skillvars, gpbvars >>

\* lines 36-39
tsf_return ==
  /\ tsf_pc = "while"
  /\ ~(tsf_status # 200 /\ tsf_i < Attempts)
  /\ tsf_ret' = IF tsf_status # 200 THEN None ELSE tsf_uri
  /\ tsf_pc' = "returned"
  /\ UNCHANGED << tsf_now, tsf_date, tsf_i, tsf_status, tsf_uri, tsf_log,
                  skillvars, gpbvars >>

(* ----------------------------- gpb(), 42-60 ---------------------------- *)
MaxEntries == 2
MaxLines == 2
MaxHrefs == 2

\* the substrings line 49 looks for in a title
Marks == {"GPB", "Headlines"}
\* the pages the entries of the feed link to
Links == {"story-1", "story-2"}
\* an entry of the feed: the marks its title contains, and links[0].href
Entries == [title : SUBSET Marks, href : Links]
\* an href="..." attribute of a page: the text up to the last dot, and the
\* extension
Hrefs == [stem : {"a", "b"}, ext : {"mp3"}] \cup [stem : {"c"}, ext : {"html"}]
SeqsUpTo(S, n) == UNION { [1..m -> S] : m \in 0..n }
\* a page is a sequence of lines, a line the sequence of its href attributes
PageLines == SeqsUpTo(Hrefs, MaxHrefs)
Pages == SeqsUpTo(PageLines, MaxLines)
NoPage == << >>

Text(h) == h.stem \o "." \o h.ext
\* the text of a line from the value of its first href to the end of the
\* value of its n-th
RECURSIVE Between(_, _)
Between(line, n) ==
  IF n = 1 THEN Text(line[1])
  ELSE Between(line, n - 1) \o "\" href=\"" \o Text(line[n])

\* line 49
Matching(entry) == "GPB" \in entry.title /\ "Headlines" \in entry.title

\* lines 46-50: the link of the first matching entry, None without one
first_link(data) ==
  IF \E n \in 1..Len(data) : Matching(data[n])
  THEN Str(data[CHOOSE n \in 1..Len(data) :
                  /\ Matching(data[n])
                  /\ \A m \in 1..(n - 1) : ~Matching(data[m])].href)
  ELSE None

\* the lines on which href="(?P<mp3>.+\.mp3)" matches: "." matches no line
\* break, so the match lies within a line that has an mp3 href
Mp3Lines(page) ==
  { n \in 1..Len(page) : \E j \in 1..Len(page[n]) : page[n][j].ext = "mp3" }

\* lines 52-55: re.search finds the leftmost match, which starts at the first
\* href of the first such line, and ".+" is greedy, so the group runs to the
\* last ".mp3" followed by a quote on that line
mp3_find(page) ==
  IF Mp3Lines(page) = {} THEN None
  ELSE LET n == CHOOSE x \in Mp3Lines(page) : \A y \in Mp3Lines(page) : x <= y
           last == CHOOSE j \in 1..Len(page[n]) :
                     /\ page[n][j].ext = "mp3"
                     /\ \A m \in (j + 1)..Len(page[n]) : page[n][m].ext # "mp3"
       IN  Str(Between(page[n], last))

gpb_idle ==
  /\ gpb_pc = "idle"
  /\ gpb_data = << >>
  /\ gpb_site = [l \in Links |-> NoPage]
  /\ gpb_next_link = None
  /\ gpb_html = NoPage
  /\ gpb_ret = None

\* lines 43-50
gpb_parse ==
  /\ gpb_pc = "called"
  /\ gpb_next_link' = first_link(gpb_data)
  /\ gpb_pc' = "get"
  /\ UNCHANGED << gpb_data, gpb_site, gpb_html, gpb_ret, skillvars, tsfvars >>

\* line 51: requests.get(next_link); requests raises MissingSchema for the
\* URL None
gpb_get ==
  /\ gpb_pc = "get"
  /\ IF gpb_next_link = None
     THEN /\ gpb_pc' = "raised"
          /\ gpb_ret' = Raise
          /\ UNCHANGED gpb_html
     ELSE /\ gpb_pc' = "search"
          /\ gpb_html' = gpb_site[gpb_next_link.val]
          /\ UNCHANGED gpb_ret
  /\ UNCHANGED << gpb_data, gpb_site, gpb_next_link, skillvars, tsfvars >>

\* lines 52-56
gpb_search ==
  /\ gpb_pc = "search"
  /\ gpb_ret' = mp3_find(gpb_html)
  /\ gpb_pc' = "returned"
  /\ UNCHANGED << gpb_data, gpb_site, gpb_next_link, gpb_html, skillvars,
                  tsfvars >>

(* ------------------------------ input sets ----------------------------- *)
Phrases(words, n) == { p \in SUBSET words : Cardinality(p) <= n }
SystemLangs == {"en-us", "de"}
Feeds == {"", "NPR", "BBC"}
\* the fuzzy answers that resemble one of the given alias strings
Ratios(targets) == {NoRatio} \cup [target : targets, level : 1..Grain]
\* the first alias of every source
FirstAliases == { Load(k).aliases[1] : k \in Names }
\* the network when every resolver finds its n-th URI
AllFound(n) == [f \in Resolvers |-> Found(f, n)]
\* the networks where one resolver raises or finds nothing
OneFault ==
  UNION { { [AllFound(1) EXCEPT ![f] = o] : o \in Outcomes(f) \cap {Raise, None} } :
            f \in Resolvers }

Loaded ==
  /\ lang2news = Catalog
  /\ results = << >>
  /\ local = NoLocal
  /\ calls = [k \in Names |-> 0]
  /\ failed = {}
  /\ served = 0

(* ------------------- the skill over several requests ------------------- *)
\* "play the news"; a phrase that resembles no alias, or is the alias "NPR"
\* of a resolver-backed source or the alias "RT" of literal sources; the
\* network with all resolvers answering or one of them failing
MainPhrases == {{"news"}}
MainRatios == {NoRatio} \cup [target : {"NPR", "RT"}, level : {Grain}]
MainWebs == { AllFound(n) : n \in Versions } \cup OneFault

Started ==
  /\ Loaded
  /\ settings = [default_feed |-> ""]
  /\ lang = "en-us"
  /\ req = [phrase |-> {}, media_type |-> "NEWS"]
  /\ ratio = NoRatio
  /\ web = AllFound(1)

Init == Started /\ tsf_idle /\ gpb_idle

Search ==
  /\ served < MaxRequests
  /\ \E p \in MainPhrases, m \in {"NEWS", "GENERIC"}, z \in MainRatios,
        w \in MainWebs :
       search_news(p, m, z, w)

Configure == \E feed \in {"", "NPR"} : SetDefaultFeed(feed)

Next == Search \/ Configure

Spec == Init /\ [][Next]_vars

(* ------------------------ one utterance, served ------------------------ *)
\* The utterance, the answers of the fuzzy match and of the network, the
\* setting and the system language are drawn at the start; search_news
\* then serves that utterance.  Three families of utterances are drawn:
\* any short phrase, any fuzzy answer, any state of the network.
AnyPhrase ==
  /\ req \in [phrase : Phrases(Words, MaxWords),
               media_type : {"NEWS", "GENERIC"}]
  /\ ratio = NoRatio
  /\ web = AllFound(1)
  /\ settings \in [default_feed : {"", "NPR"}]
  /\ lang \in SystemLangs

AnyRatio ==
  /\ req \in [phrase : {{}, {"the"}, {"american"}, {"german"}},
               media_type : {"NEWS", "GENERIC"}]
  /\ ratio \in Ratios(FirstAliases)
  /\ web = AllFound(1)
  /\ settings \in [default_feed : Feeds]
  /\ lang \in SystemLangs

AnyWeb ==
  /\ req \in [phrase : {{"news"}}, media_type : MediaTypes]
  /\ ratio \in MainRatios
  /\ web \in Webs
  /\ settings = [default_feed |-> ""]
  /\ lang = "en-us"

InitUtterance ==
  /\ Loaded
  /\ tsf_idle
  /\ gpb_idle
  /\ (AnyPhrase \/ AnyRatio \/ AnyWeb)

Serve ==
  /\ served = 0
  /\ search_news(req.phrase, req.media_type, ratio, web)

SpecUtterance == InitUtterance /\ [][Serve]_vars


(* ---------------------------- a call of tsf() -------------------------- *)
\* the hours at which tsf() is called: around the turn of a year, of
\* February in a leap year and in a common year, and within a month
TsfDays == { [year |-> 2024, month |-> 1, day |-> 1],
             [year |-> 2024, month |-> 3, day |-> 1],
             [year |-> 2023, month |-> 3, day |-> 1],
             [year |-> 2023, month |-> 5, day |-> 1],
             [year |-> 2023, month |-> 6, day |-> 15] }
TsfNows == { [year |-> d.year, month |-> d.month, day |-> d.day, hour |-> h] :
               d \in TsfDays, h \in 0..23 }

InitTsf ==
  /\ Started
  /\ gpb_idle
  /\ tsf_pc = "called"
  /\ tsf_now \in TsfNows
  /\ tsf_date = NoDate
  /\ tsf_i = 0
  /\ tsf_status = 404
  /\ tsf_uri = None
  /\ tsf_log = << >>
  /\ tsf_ret = None

TsfProbe == \E s \in Statuses : tsf_probe(s)

NextTsf == tsf_enter \/ TsfProbe \/ tsf_unreachable \/ tsf_return

\* a call that has started runs on: nothing in tsf() waits
SpecTsf == InitTsf /\ [][NextTsf]_vars /\ WF_vars(NextTsf)

(* ---------------------------- a call of gpb() -------------------------- *)
GpbFeeds == SeqsUpTo(Entries, MaxEntries)
\* the page of story-2 has one mp3 link; the page of story-1 is any page
GpbSites == { [l \in Links |->
                 IF l = "story-1" THEN p
                 ELSE << << [stem |-> "b", ext |-> "mp3"] >> >>] : p \in Pages }

InitGpb ==
  /\ Started
  /\ tsf_idle
  /\ gpb_pc = "called"
  /\ gpb_data \in GpbFeeds
  /\ gpb_site \in GpbSites
  /\ gpb_next_link = None
  /\ gpb_html = NoPage
  /\ gpb_ret = None

NextGpb == gpb_parse \/ gpb_get \/ gpb_search

SpecGpb == InitGpb /\ [][NextGpb]_vars
(* ------------------------------ properties ----------------------------- *)
TypeOK ==
  /\ DOMAIN lang2news = Names
  /\ \A k \in Names : Len(lang2news[k].match_confidence) <= 1
  /\ served \in 0..MaxRequests

\* what the last search_news left behind
Conf(k) == lang2news[k].match_confidence[1]
SeqSet(s) == { s[i] : i \in 1..Len(s) }
IsNews == req.media_type = "NEWS"
PassesFilter(k) == IsNews \/ Conf(k) >= AVERAGE
NonEmptyStr(u) == u.kind = "str" /\ u.val # ""
Min(a, b) == IF a < b THEN a ELSE b
Literals == { k \in Names : Catalog[k].uri.kind = "str" }
\* the terms of the score, from the request and the catalog as loaded
BaseTerm == IF IsNews THEN 50 ELSE 0 - 20
AliasLevel(k) ==
  IF ratio.target \in SeqSet(Catalog[k].aliases) THEN ratio.level ELSE 0
AliasTerm(k) == (60 * AliasLevel(k)) \div Grain
EffectiveSet ==
  IF local.langs = << >> THEN {lang, Base(lang)} ELSE SeqSet(local.langs)
LangTermIn(k, eff) ==
  IF Catalog[k].lang \in eff THEN 20
  ELSE IF Catalog[k].secondary_langs \cap eff # {} THEN 10
  ELSE 0 - 20
LangTerm(k) == LangTermIn(k, EffectiveSet)
\* the score of every source without a default-feed bonus, and its
\* confidence
Terms ==
  [k \in Names |->
     [sum |-> BaseTerm + AliasTerm(k) + LangTermIn(k, EffectiveSet),
      conf |-> Conf(k)]]

\* C1: when the resolver of a source raises, search_news still returns, in
\* catalog order, every other source that passes the inclusion filter and
\* has a non-empty URI, each with its own URI, and not the failed source.
C1_RaiseRemovesOneSource ==
  (local.ran /\ failed # {}) =>
    /\ results =
         SelectSeq(Order, LAMBDA k : /\ k \notin failed
                                     /\ PassesFilter(k)
                                     /\ NonEmptyStr(lang2news[k].uri))
    /\ \A k \in Names \ failed :
         PassesFilter(k) =>
           lang2news[k].uri = IF k \in ResolverNames
                              THEN web[Catalog[k].uri.val]
                              ELSE Catalog[k].uri

\* a resolver raised while another resolver-backed source and a literal
\* source were returned
C1_Witness ==
  /\ local.ran
  /\ failed # {}
  /\ (ResolverNames \ failed) \cap SeqSet(results) # {}
  /\ Literals \cap SeqSet(results) # {}

\* C2: every returned record carries a match_confidence in 0..100.
C2_ConfidenceInRange ==
  local.ran =>
    \A i \in 1..Len(results) :
      Conf(results[i]) >= 0 /\ Conf(results[i]) <= 100

\* one returned record was clamped at 100 and another scores below AVERAGE
C2_Witness ==
  /\ local.ran
  /\ \E k \in SeqSet(results) :
       Conf(k) = 100 /\ BaseTerm + AliasTerm(k) + LangTerm(k) + 30 > 100
  /\ \E k \in SeqSet(results) : Conf(k) < AVERAGE

\* C3: every source is scored; for a NEWS request every source whose uri is
\* a non-empty literal string is returned whatever its confidence; for any
\* other media type only sources of confidence at least AVERAGE are returned.
C3_NewsReturnsEveryLiteral ==
  local.ran =>
    /\ \A k \in Names : lang2news[k].match_confidence # Absent
    /\ IsNews =>
         { k \in Literals : Catalog[k].uri.val # "" } \subseteq SeqSet(results)
    /\ ~IsNews =>
         \A k \in SeqSet(results) : Conf(k) >= AVERAGE

\* a NEWS request returned a literal source scoring below AVERAGE
C3_Witness ==
  /\ local.ran
  /\ IsNews
  /\ \E k \in SeqSet(results) : k \in Literals /\ Conf(k) < AVERAGE

\* C4: a source has the default-feed bonus only when the cleaned phrase is
\* empty, and then either no language was detected and it is the source of
\* the default_feed setting, or it is the default of a detected language.
\* A source with the bonus scores min(100, c + 30) where c is the score of a
\* source without it that has the same alias score and language bonus, and
\* two such sources without it score the same.
C4_Favoured ==
  IF local.phrase # {} THEN {}
  ELSE IF local.langs = << >> THEN {settings.default_feed} \cap Names
  ELSE { langdefaults[t] : t \in SeqSet(local.langs) \cap LangDefaultTags }
C4_DefaultBonusOnlyOnEmptyPhrase ==
  local.ran =>
    \A fav \in {C4_Favoured}, T \in {Terms} :
      \A s \in Names, t \in Names \ fav :
        T[s].sum = T[t].sum =>
          T[s].conf = IF s \in fav THEN Min(100, T[t].conf + 30)
                      ELSE T[t].conf

\* "the news" with no language detected: the source of the setting scores 30
\* more than its peer, below the clamp
C4_Witness ==
  /\ local.ran
  /\ local.phrase = {} /\ local.langs = << >>
  /\ settings.default_feed = "NPR"
  /\ Terms["NPR"].sum = Terms["AP"].sum
  /\ Conf("NPR") = Conf("AP") + 30
  /\ Conf("NPR") < 100

\* C5: the catalog entry of a resolver-backed source still holds its
\* resolver after a request, and every request in which the source passes
\* the filter calls the resolver again.
C5_ResolvedUriNotPersisted ==
  \A k \in ResolverNames :
    /\ callable(lang2news[k].uri)
    /\ (local.ran /\ PassesFilter(k)) => calls[k] = 1

\* C6: for every tag t of langdefaults, the phrase made of the trigger of t
\* and the trigger "news" is detected as t, is cleaned to the empty phrase
\* and gives the default source of t the bonus of 30.
C6_LangWord(t) == CHOOSE x \in Words : Triggers[x] = {t}
C6_LanguageDefaultGetsBonus ==
  \A t \in LangDefaultTags :
    (local.ran /\ req.phrase = {C6_LangWord(t), "news"}) =>
      /\ t \in SeqSet(local.langs)
      /\ local.phrase = {}
      /\ Conf(langdefaults[t]) = Min(100, Terms[langdefaults[t]].sum + 30)

\* C7: "fr" is never reported for a phrase that matches the fr24 trigger nor
\* "ru" for one that matches the rt trigger; for a phrase that matches
\* neither, "fr" (resp. "ru") is reported exactly when its trigger matches.
C7_ChannelNameIsNotALanguage ==
  local.ran =>
    /\ voc_match(req.phrase, "fr24") => "fr" \notin SeqSet(local.langs)
    /\ voc_match(req.phrase, "rt") => "ru" \notin SeqSet(local.langs)
    /\ (~voc_match(req.phrase, "fr24") /\ ~voc_match(req.phrase, "rt")) =>
         /\ "fr" \in SeqSet(local.langs) <=> voc_match(req.phrase, "fr")
         /\ "ru" \in SeqSet(local.langs) <=> voc_match(req.phrase, "ru")

\* "german france 24": the fr trigger matches with the channel name, and
\* only "de" is reported
C7_Witness ==
  /\ local.ran
  /\ voc_match(req.phrase, "fr") /\ voc_match(req.phrase, "fr24")
  /\ SeqSet(local.langs) = {"de"}

\* C8: the uri of a source whose catalog uri is a literal string is that
\* literal, in the catalog and so in the returned record (which is the
\* catalog entry), after any sequence of requests.
C8_LiteralUriUnchanged ==
  \A k \in Literals : lang2news[k].uri = Catalog[k].uri

\* the last of several requests returned a literal source and left another
\* out
C8_Witness ==
  /\ served >= 2
  /\ Literals \cap SeqSet(results) # {}
  /\ Literals \ SeqSet(results) # {}

\* C9: the confidence of every source is min(100, base + 60*aliasScore +
\* langBonus + defaultBonus): base 50 for NEWS and -20 otherwise, langBonus
\* one of 20, 10, -20 over the effective language set (the detected
\* languages, or the system language and its base tag), defaultBonus 30 once
\* for a source named in the default feeds.
C9_Confidence ==
  local.ran =>
    \A T \in {Terms}, feeds \in {SeqSet(local.default_feeds)} :
      \A k \in Names :
        T[k].conf = Min(100, T[k].sum + (IF k \in feeds THEN 30 ELSE 0))

\* "spanish": the tag es is detected twice, RNE is twice in the default
\* feeds and has one bonus, below the clamp
C9_Witness ==
  /\ local.ran
  /\ local.langs = << "es", "es" >>
  /\ local.default_feeds = << "RNE", "RNE" >>
  /\ ~IsNews
  /\ Conf("RNE") = 30

\* C10: a resolver is called at most once per request, and only for a
\* source that passes the inclusion filter.
C10_ResolverOnlyForCandidates ==
  local.ran =>
    \A k \in Names :
      /\ calls[k] <= 1
      /\ calls[k] >= 1 => PassesFilter(k)

\* a request that is not NEWS called the resolver of NPR, which scores at
\* least AVERAGE, and not that of GPB, which does not
C10_Witness ==
  /\ local.ran
  /\ ~IsNews
  /\ calls["NPR"] = 1 /\ Conf("NPR") >= AVERAGE
  /\ calls["GPB"] = 0 /\ Conf("GPB") < AVERAGE /\ callable(lang2news["GPB"].uri)

\* a search_news step
Served == served' = served + 1
\* the fields of an entry that no line of search_news assigns
Kept(v) == [lang |-> v.lang, aliases |-> v.aliases,
            media_type |-> v.media_type, playback |-> v.playback,
            secondary_langs |-> v.secondary_langs]

\* C11: when the resolver of a source was called and returned None, the next
\* request in which the source passes the filter calls the resolver again
\* and, if the resolver then finds a URI, returns the source.
C11_AbsenceIsRequestScoped ==
  [][\A k \in ResolverNames :
       ( /\ calls[k] = 1
         /\ web[Catalog[k].uri.val] = None
         /\ Served
         /\ PassesFilter(k)' ) =>
           /\ calls'[k] = 1
           /\ NonEmptyStr(web'[Catalog[k].uri.val]) =>
                k \in SeqSet(results')]_vars

\* C12 as stated: apart from match_confidence and uri, every field of every
\* entry is as it was at load, title, bg_image and skill_logo included.
C12_OnlyScoreAndUriChange ==
  \A k \in Names :
    [lang2news[k] EXCEPT !.match_confidence = Absent,
                         !.uri = Catalog[k].uri] = Catalog[k]

\* C12: after any sequence of requests the fields lang, aliases, media_type,
\* playback and secondary_langs of every entry are as they were at load;
\* besides match_confidence and uri, the fields title, bg_image and
\* skill_logo differ, for an entry that was returned: they are then the
\* source's name, the default background and the skill's icon.
C12_LoadFieldsKept ==
  \A k \in Names :
    /\ Kept(lang2news[k]) = Kept(Catalog[k])
    /\ DOMAIN lang2news[k] = DOMAIN Catalog[k]
    /\ \/ /\ lang2news[k].title = Absent
          /\ lang2news[k].bg_image = Absent
          /\ lang2news[k].skill_logo = Absent
       \/ /\ lang2news[k].title = Some(k)
          /\ lang2news[k].bg_image = Some(default_bg)
          /\ lang2news[k].skill_logo = Some(skill_icon)
          /\ NonEmptyStr(lang2news[k].uri)

\* after two requests an entry has a title and a resolved uri, and another
\* has only a match_confidence
C12_Witness ==
  /\ served >= 2
  /\ \E k \in ResolverNames :
       lang2news[k].title = Some(k) /\ lang2news[k].uri # Catalog[k].uri
  /\ \E k \in Names :
       lang2news[k].title = Absent /\ lang2news[k].match_confidence # Absent

\* C15: a request in which the resolver of a source raises changes only the
\* match_confidence of that entry: its uri is still the resolver, and it has
\* no title, bg_image or skill_logo; and a request in which a source whose
\* uri is a resolver passes the filter calls the resolver.
C15_RaiseLeavesEntry ==
  [][Served =>
       /\ \A k \in failed' :
            /\ lang2news'[k] =
                 [lang2news[k] EXCEPT
                    !.match_confidence = lang2news'[k].match_confidence]
            /\ lang2news'[k].uri = Catalog[k].uri
            /\ callable(lang2news'[k].uri)
            /\ lang2news'[k].title = Absent
            /\ lang2news'[k].bg_image = Absent
            /\ lang2news'[k].skill_logo = Absent
       /\ \A k \in failed :
            PassesFilter(k)' => calls'[k] = 1]_vars

\* in the second request a resolver was called and raised; the entry has a
\* match_confidence and nothing else new
C15_Witness ==
  /\ served >= 2
  /\ \E k \in failed :
       /\ calls[k] = 1
       /\ lang2news[k].match_confidence # Absent
       /\ lang2news[k].title = Absent
       /\ callable(lang2news[k].uri)
  /\ results # << >>

\* C16: a request that is not NEWS and whose cleaned phrase is not empty
\* returns no source with the wrong-language penalty, and a request that is
\* not NEWS returns only sources of confidence at least AVERAGE.
C16_WrongLanguageNeverReturned ==
  (local.ran /\ ~IsNews) =>
    /\ local.phrase # {} =>
         \A k \in SeqSet(results) : LangTerm(k) # 0 - 20
    /\ \A k \in SeqSet(results) : Conf(k) >= AVERAGE

\* a phrase that is exactly an alias of two sources: the one of the
\* requested language is returned, the one of another language is not
C16_Witness ==
  /\ local.ran
  /\ ~IsNews
  /\ local.phrase # {}
  /\ \E k \in Names \ SeqSet(results) :
       LangTerm(k) = 0 - 20 /\ AliasLevel(k) = Grain /\ Conf(k) = 20
  /\ \E k \in SeqSet(results) : AliasLevel(k) = Grain

\* the hours from a fixed origin to the hour d, by the Gregorian calendar
C13_MonthStart == << 0, 31, 59, 90, 120, 151, 181, 212, 243, 273, 304, 334 >>
C13_LeapDay(d) ==
  IF d.month > 2 /\ d.year % 4 = 0 /\ (d.year % 100 # 0 \/ d.year % 400 = 0)
  THEN 1 ELSE 0
C13_Hours(d) ==
  24 * (365 * d.year + (d.year - 1) \div 4 - (d.year - 1) \div 100
        + (d.year - 1) \div 400 + C13_MonthStart[d.month] + C13_LeapDay(d)
        + d.day)
  + d.hour
C13_Probes ==
  /\ tsf_i <= Attempts
  /\ Len(tsf_log) <= Attempts
  /\ \A n \in 1..Len(tsf_log) :
       /\ tsf_log[n].date.month \in 1..12
       /\ tsf_log[n].date.day >= 1
       /\ tsf_log[n].date.hour \in 0..23
       /\ C13_Hours(tsf_log[n].date) = C13_Hours(tsf_now) - (n - 1)
       /\ tsf_log[n].uri = Feed(tsf_log[n].date)
       /\ n < Len(tsf_log) => tsf_log[n].status # 200
  /\ tsf_pc = "returned" =>
       /\ tsf_log # << >>
       /\ IF tsf_log[Len(tsf_log)].status = 200
          THEN tsf_ret = tsf_log[Len(tsf_log)].uri
          ELSE tsf_ret = None /\ Len(tsf_log) = Attempts

\* C13: tsf() ends, after at most 6 probes; the n-th probe is for the hour
\* n-1 hours before the current hour in Portugal, by the calendar; no probe
\* follows one answered 200; tsf() returns the URI of the probe answered 200,
\* and None when none of the 6 probes was.
C13_TsfProbesSixHours ==
  []C13_Probes /\ <>(tsf_pc \in {"returned", "raised"})

\* called at 01:00 on 1 March 2024, tsf() returns the URI of 23:00 on
\* 29 February, the third probe
C13_Witness ==
  /\ tsf_pc = "returned"
  /\ tsf_now = [year |-> 2024, month |-> 3, day |-> 1, hour |-> 1]
  /\ Len(tsf_log) = 3
  /\ tsf_ret =
       Str("https://www.tsf.pt/stream/audio/2024/02/noticias/29/not23.mp3")

\* the first mp3 href of a page, in reading order
C14_Mp3At(page) ==
  { p \in (1..Len(page)) \X (1..MaxHrefs) :
      p[2] <= Len(page[p[1]]) /\ page[p[1]][p[2]].ext = "mp3" }
C14_FirstMp3(page) ==
  LET p == CHOOSE p \in C14_Mp3At(page) :
             \A q \in C14_Mp3At(page) :
               p[1] < q[1] \/ (p[1] = q[1] /\ p[2] <= q[2])
  IN  Str(Text(page[p[1]][p[2]]))
C14_MatchingEntries ==
  { n \in 1..Len(gpb_data) : Marks \subseteq gpb_data[n].title }
C14_LinkedPage ==
  gpb_site[gpb_data[CHOOSE n \in C14_MatchingEntries :
                      \A m \in C14_MatchingEntries : n <= m].href]

\* C14: gpb() returns None when no entry of the feed has a title with "GPB"
\* and "Headlines", and when the page linked by the first such entry has no
\* mp3 link; otherwise it returns the first mp3 link of that page.
C14_GpbAbsentOrFirstMp3 ==
  gpb_pc \in {"returned", "raised"} =>
    /\ gpb_pc = "returned"
    /\ gpb_ret = IF C14_MatchingEntries = {} THEN None
                 ELSE IF C14_Mp3At(C14_LinkedPage) = {} THEN None
                 ELSE C14_FirstMp3(C14_LinkedPage)
=============================================================================
